---- MODULE Spec2Model ----
(***************************************************************************)
(* Event aggregation, workflow classification, batching and correlation    *)
(* routing of llm-logger-ext: the background Coordinator                   *)
(* (scripts/background.js), the offscreen Router                           *)
(* (scripts/offscreen_controller.js) and the Summarizer worker.            *)
(***************************************************************************)
EXTENDS Integers, Sequences, FiniteSets, TLC

\* ------------------------------------------------------------------ bounds
MaxEvents == 2       \* messages handled one by one in one behaviour
MaxConn == 2         \* channel connections established in one behaviour
MaxExtra == 3        \* requests a worker gets beyond the capacity of its cache
MaxSignals == 6      \* timer callbacks, visibility and content changes of a page
MaxValue == 2        \* characters typed into one form field

\* ------------------------------------------------------- program constants
MAX_BATCH_SIZE == 10
WORKFLOW_TIMEOUT == 5000
MAX_CACHE_SIZE == 50
KEY_LIMIT == 100
VLM_CACHE_SIZE == 100
BATCH_SIZE == 10
SCREENSHOT_INTERVAL == 1000
MIN_SCREENSHOT_INTERVAL == 2000
DEBOUNCE_MS == 500

Null == "null"
NoTime == -1

VARIABLES
  queue,            \* background: let queue
  currentWorkflow,  \* background: let currentWorkflow
  port,             \* background: let port (0 = null, else the connection)
  connecting,       \* connectToMLPipe is awaiting ensureOffscreen
  now,              \* Date.now()
  flushes,          \* the handleEvent invocations that entered the flush branch
  c2r,              \* messages posted by the Coordinator, not yet received
  r2c,              \* messages posted by the Router, not yet received
  pending,          \* offscreen controller: const pending (id -> port)
  toSum,            \* messages posted to the Summarizer worker
  fromSum,          \* messages posted by the Summarizer worker
  sumCache,         \* summarizer: summaryCache, in insertion order
  sumJobs,          \* summarizer: requests awaiting engine.chat.completions
  store,            \* chrome.storage.local
  storeQ,           \* the chrome.storage.local.set calls not yet completed
  nEvents,          \* history: events ingested
  backlog,          \* history: events ingested by IngestBacklog
  conns,            \* history: connections established
  delivered,        \* history: the replies the Router forwarded
  toVlm,            \* messages posted to the Describer (VLM) worker
  fromVlm,          \* messages posted by the Describer worker
  responseCache,    \* describer: responseCache, in insertion order
  vlmJobs,          \* describer: requests awaiting engine.chat.completions
  reqs,             \* history: requests posted to a worker on its own
  surface,          \* content script: the capture state of one page
  batchRuns         \* the runs of the listener on a 'process_batch' message

vars == <<queue, currentWorkflow, port, connecting, now, flushes, c2r, r2c,
          pending, toSum, fromSum, sumCache, sumJobs, store, storeQ,
          nEvents, backlog, conns, delivered,
          toVlm, fromVlm, responseCache, vlmJobs, reqs, surface,
          batchRuns>>

\* the state of the background worker, the Router and the Summarizer
coreVars == <<queue, currentWorkflow, port, connecting, flushes, c2r, r2c,
              pending, toSum, fromSum, sumCache, sumJobs, store, storeQ,
              nEvents, backlog, conns, delivered>>

\* the state of the Describer worker and its two message queues
vlmVars == <<toVlm, fromVlm, responseCache, vlmJobs, reqs>>

\* a property read of a JavaScript object: undefined when the field is absent
Get(obj, f) == IF f \in DOMAIN obj THEN obj[f] ELSE "undefined"

\* ------------------------------------------------------------- classifier
WORKFLOW_PATTERNS ==
  [FIELD_UPDATE |-> [name |-> "Field Update",
                     startTriggers |-> {"select", "click"},
                     endTriggers |-> {"change"},
                     targetTypes |-> {"select", "input", "textarea"}],
   FORM_SUBMISSION |-> [name |-> "Form Submission",
                        startTriggers |-> {"change"},
                        endTriggers |-> {"submit"},
                        targetTypes |-> {"form"}],
   NAVIGATION |-> [name |-> "Navigation",
                   startTriggers |-> {"click"},
                   endTriggers |-> {"navigation"},
                   targetTypes |-> {"a", "button"}]]

\* Object.entries(WORKFLOW_PATTERNS) iterates in insertion order
PatternOrder == <<"FIELD_UPDATE", "FORM_SUBMISSION", "NAVIGATION">>

IdleWorkflow ==
  [type |-> Null, target |-> Null, steps |-> <<>>,
   startTime |-> NoTime, lastEventTime |-> NoTime]

\* finishWorkflow that emits the record and leaves the workflow Active
finishWorkflowKeep(s) ==
  IF s.cw.type # Null /\ Len(s.cw.steps) > 0
  THEN [s EXCEPT !.q = Append(@, [type |-> "workflow",
                                  workflowType |-> s.cw.type,
                                  target |-> s.cw.target,
                                  steps |-> s.cw.steps,
                                  startTime |-> s.cw.startTime,
                                  endTime |-> s.cw.lastEventTime,
                                  duration |-> s.cw.lastEventTime
                                               - s.cw.startTime])]
  ELSE s

\* finishWorkflow that resets the type alone and keeps the rest of the
\* workflow state
finishWorkflowTypeOnly(s) ==
  IF s.cw.type # Null /\ Len(s.cw.steps) > 0
  THEN [cw |-> [s.cw EXCEPT !.type = Null],
        q |-> Append(s.q, [type |-> "workflow",
                           workflowType |-> s.cw.type,
                           target |-> s.cw.target,
                           steps |-> s.cw.steps,
                           startTime |-> s.cw.startTime,
                           endTime |-> s.cw.lastEventTime,
                           duration |-> s.cw.lastEventTime - s.cw.startTime])]
  ELSE s

\* finishWorkflow(): on [cw, q] returns the new [cw, q]
finishWorkflow(s) ==
  IF s.cw.type # Null /\ Len(s.cw.steps) > 0
  THEN [cw |-> IdleWorkflow,
        q |-> Append(s.q, [type |-> "workflow",
                           workflowType |-> s.cw.type,
                           target |-> s.cw.target,
                           steps |-> s.cw.steps,
                           startTime |-> s.cw.startTime,
                           endTime |-> s.cw.lastEventTime,
                           duration |-> s.cw.lastEventTime - s.cw.startTime])]
  ELSE s

\* the loop body without the timeout: an Active workflow is never replaced
StartCheckNoTimeout(s, ty, evt, t) ==
  IF evt.type \in WORKFLOW_PATTERNS[ty].startTriggers
     /\ Get(evt, "elementType") \in WORKFLOW_PATTERNS[ty].targetTypes
     /\ s.cw.type = Null
  THEN [s EXCEPT !.cw = [type |-> ty, target |-> Get(evt, "identifier"),
                         steps |-> <<>>, startTime |-> t,
                         lastEventTime |-> t]]
  ELSE s

\* the loop body that looks at the kind of the event and not at its target
StartCheckAnyTarget(s, ty, evt, t) ==
  IF evt.type \in WORKFLOW_PATTERNS[ty].startTriggers
  THEN LET s1 == IF s.cw.type # Null /\ t - s.cw.lastEventTime > WORKFLOW_TIMEOUT
                 THEN finishWorkflow(s) ELSE s
       IN IF s1.cw.type = Null
          THEN [s1 EXCEPT !.cw = [type |-> ty, target |-> Get(evt, "identifier"),
                                  steps |-> <<>>, startTime |-> t,
                                  lastEventTime |-> t]]
          ELSE s1
  ELSE s

\* the loop body that replaces an Active workflow however young it is
StartCheckReplace(s, ty, evt, t) ==
  IF evt.type \in WORKFLOW_PATTERNS[ty].startTriggers
     /\ Get(evt, "elementType") \in WORKFLOW_PATTERNS[ty].targetTypes
  THEN LET s1 == finishWorkflow(s)
       IN [s1 EXCEPT !.cw = [type |-> ty, target |-> Get(evt, "identifier"),
                             steps |-> <<>>, startTime |-> t,
                             lastEventTime |-> t]]
  ELSE s

\* one iteration of the for loop of updateWorkflow, for pattern ty
StartCheck(s, ty, evt, t) ==
  IF evt.type \in WORKFLOW_PATTERNS[ty].startTriggers
     /\ Get(evt, "elementType") \in WORKFLOW_PATTERNS[ty].targetTypes
  THEN LET s1 == IF s.cw.type # Null /\ t - s.cw.lastEventTime > WORKFLOW_TIMEOUT
                 THEN finishWorkflow(s) ELSE s
       IN IF s1.cw.type = Null
          THEN [s1 EXCEPT !.cw = [type |-> ty, target |-> Get(evt, "identifier"),
                                  steps |-> <<>>, startTime |-> t,
                                  lastEventTime |-> t]]
          ELSE s1
  ELSE s

RECURSIVE StartLoop(_, _, _, _)
StartLoop(s, i, evt, t) ==
  IF i > Len(PatternOrder) THEN s
  ELSE StartLoop(StartCheck(s, PatternOrder[i], evt, t), i + 1, evt, t)

\* the second half of updateWorkflow without the end trigger
AddStepNoEnd(s, evt, t) ==
  IF s.cw.type # Null
  THEN [s EXCEPT !.cw.steps = Append(@, [action |-> IF "description" \in DOMAIN evt
                                                    THEN evt.description
                                                    ELSE evt.type,
                                         timestamp |-> t]),
                 !.cw.lastEventTime = t]
  ELSE s

\* the second half of updateWorkflow: add the step, check the end trigger
AddStep(s, evt, t) ==
  IF s.cw.type # Null
  THEN LET step == [action |-> IF "description" \in DOMAIN evt
                                THEN evt.description ELSE evt.type,
                     timestamp |-> t]
           s1 == [s EXCEPT !.cw.steps = Append(@, step),
                           !.cw.lastEventTime = t]
       IN IF evt.type \in WORKFLOW_PATTERNS[s1.cw.type].endTriggers
          THEN finishWorkflow(s1) ELSE s1
  ELSE s

updateWorkflow(s, evt, t) == AddStep(StartLoop(s, 1, evt, t), evt, t)

\* ------------------------------------------------------------ summariser
\* number of decimal digits of a duration in the cache key
Digits(d) == IF d < 10 THEN 1 ELSE IF d < 100 THEN 2 ELSE IF d < 1000 THEN 3
             ELSE IF d < 10000 THEN 4 ELSE 5

\* number of characters of a pattern name
NameLen(nm) == IF nm = "Field Update" THEN 12
               ELSE IF nm = "Form Submission" THEN 15 ELSE 10

\* summariseBatch: the enhancedEvents object posted to the worker
Enhance(events) ==
  LET wfs == SelectSeq(events, LAMBDA e : e.type = "workflow")
      oth == SelectSeq(events, LAMBDA e : e.type # "workflow")
  IN [workflows |-> [i \in 1..Len(wfs) |->
                       [type |-> WORKFLOW_PATTERNS[wfs[i].workflowType].name,
                        duration |-> wfs[i].duration]],
      otherEvents |-> [i \in 1..Len(oth) |->
                         [actionType |-> IF "actionType" \in DOMAIN oth[i]
                                         THEN oth[i].actionType
                                         ELSE "interaction",
                          timestamp |-> oth[i].timestamp]]]

\* number of characters of an action type
ActionLen(a) == IF a = "interaction" THEN 11
                ELSE IF a = "button_click" THEN 12 ELSE 13

\* the parts joined by generateCacheKey, each with its length in characters
\* (a millisecond timestamp has 13 digits)
KeyParts(events) ==
  [i \in 1..Len(events.workflows) |->
     [part |-> <<"wf", events.workflows[i].type, events.workflows[i].duration>>,
      len |-> 3 + NameLen(events.workflows[i].type) + 1
              + Digits(events.workflows[i].duration)]]
  \o
  [i \in 1..Len(events.otherEvents) |->
     [part |-> <<"evt", events.otherEvents[i].actionType,
                 events.otherEvents[i].timestamp>>,
      len |-> 4 + ActionLen(events.otherEvents[i].actionType) + 1 + 13]]

\* .join('|').slice(0, KEY_LIMIT): the parts that fit whole, then the tag of
\* the part the slice cuts
RECURSIVE SliceParts(_, _, _)
SliceParts(parts, i, used) ==
  IF i > Len(parts) THEN <<>>
  ELSE LET need == (IF i > 1 THEN 1 ELSE 0) + parts[i].len
       IN IF used + need <= KEY_LIMIT
          THEN <<parts[i].part>> \o SliceParts(parts, i + 1, used + need)
          ELSE IF used + 1 < KEY_LIMIT THEN <<<<parts[i].part[1]>>>> ELSE <<>>

generateCacheKey(events) == SliceParts(KeyParts(events), 1, 0)

\* ------------------------------------------------------------------ events
\* the kinds of event the capture side sends (type, elementType, identifier)
PlainKinds == {[type |-> "click", elementType |-> "div", identifier |-> "panel"]}

TriggerKinds ==
  {[type |-> "click", elementType |-> "input", identifier |-> "email"],
   [type |-> "change", elementType |-> "input", identifier |-> "email"]}

ShotKinds == {[type |-> "screenshot", imgBase64 |-> "png"]}

EventKinds == PlainKinds \cup TriggerKinds \cup ShotKinds

\* the kinds of event that exercise every pattern of the classifier: the
\* start and the end trigger of each pattern, and a click that starts none
ClassifierKinds ==
  TriggerKinds \cup
  {[type |-> "click", elementType |-> "button", identifier |-> "send",
    actionType |-> "button_click", description |-> "Clicked send"],
   [type |-> "click", elementType |-> "div", identifier |-> "panel",
    actionType |-> "element_click", description |-> "Clicked on div panel"],
   [type |-> "change", elementType |-> "form", identifier |-> "signup"],
   [type |-> "submit", elementType |-> "form", identifier |-> "signup"],
   [type |-> "navigation", description |-> "Navigated to page"]}

\* --------------------------------------------------------------------- init
Init ==
  /\ queue = <<>>
  /\ currentWorkflow = IdleWorkflow
  /\ port = 0
  /\ connecting = TRUE
  /\ now = 0
  /\ flushes = <<>>
  /\ c2r = <<>>
  /\ r2c = <<>>
  /\ pending = <<>>
  /\ toSum = <<>>
  /\ fromSum = <<>>
  /\ sumCache = <<>>
  /\ sumJobs = <<>>
  /\ store = [log |-> 0, events |-> <<>>, writes |-> 0]
  /\ storeQ = <<>>
  /\ nEvents = 0
  /\ backlog = 0
  /\ conns = 0
  /\ delivered = <<>>
  /\ toVlm = <<>>
  /\ fromVlm = <<>>
  /\ responseCache = <<>>
  /\ vlmJobs = <<>>
  /\ reqs = 0
  /\ surface = [lastScreenshotTime |-> 0, screenshotInterval |-> FALSE,
                timers |-> 0, loaded |-> FALSE, content |-> 0,
                lastDOMHash |-> Null, screenshotTimeout |-> NoTime,
                nextFire |-> NoTime, hidden |-> FALSE, screenshotBatch |-> 0,
                sent |-> <<>>, capturing |-> <<>>, processing |-> 0,
                signals |-> 0, captures |-> <<>>, captured |-> <<>>,
                target |-> <<>>, message |-> <<>>]
  /\ batchRuns = <<>>

\* ------------------------------------------------------------- coordinator
\* the queue written as it is
SanitizeNothing(q) == q

\* queue.map(e => ({...e, imgBase64: null}))
Sanitize(q) ==
  [i \in 1..Len(q) |->
     [f \in DOMAIN q[i] \cup {"imgBase64"} |->
        IF f = "imgBase64" THEN Null ELSE q[i][f]]]

\* the flush condition one entry early
ShouldFlushEarly(q, evt) ==
  Len(q) >= MAX_BATCH_SIZE - 1 \/ evt.type = "screenshot"

\* the flush condition on the batch size alone
ShouldFlushSizeOnly(q, evt) == Len(q) >= MAX_BATCH_SIZE

\* the flush condition with a strict comparison
ShouldFlushStrict(q, evt) == Len(q) > MAX_BATCH_SIZE \/ evt.type = "screenshot"

\* the condition of the flush branch of handleEvent
ShouldFlush(q, evt) == Len(q) >= MAX_BATCH_SIZE \/ evt.type = "screenshot"

\* handleEvent that queues the event only when no workflow was finished on it
IngestedEither(s, evt, t) ==
  LET s1 == updateWorkflow(s, evt, t)
  IN IF Len(s1.q) > Len(s.q) THEN s1 ELSE [s1 EXCEPT !.q = Append(@, evt)]

\* handleEvent(evt) down to the flush condition: updateWorkflow, queue.push
Ingested(s, evt, t) ==
  LET s1 == updateWorkflow(s, evt, t)
  IN [s1 EXCEPT !.q = Append(@, evt)]

\* a reply listener that looks at the id alone
ResolvesAnyReply(msg, id) == msg.id = id

\* the reply listener of summariseBatch: does msg resolve the request id?
Resolves(msg, id) == msg.id = id /\ "summary" \in DOMAIN msg

\* msg.summary (0 stands for undefined)
SummaryOf(msg) == IF "summary" \in DOMAIN msg THEN msg.summary ELSE 0

InProgress(f) == f.pc \in {"awaitSummary", "awaitStore"}

\* handleEvent that queues the event as it came
LabelledNot(evt) == evt

\* the switch on evt.actionType at the head of handleEvent: evt.label
Labelled(evt) ==
  IF "actionType" \notin DOMAIN evt THEN evt
  ELSE IF evt.actionType = "field_change"
  THEN [label |-> <<"Changed", evt.fieldChange.field, evt.fieldChange.from,
                    evt.fieldChange.to>>] @@ evt
  ELSE IF evt.actionType \in {"checkbox_change", "radio_selection",
                              "button_click", "field_input"}
  THEN [label |-> Get(evt, "description")] @@ evt
  ELSE IF "description" \in DOMAIN evt
  THEN [label |-> evt.description] @@ evt
  ELSE evt

\* handleEvent(evt), up to its first await. A flush is one record of flushes:
\* its request id and port, the batch handed to summariseBatch, its position
\* (pc) and, as history, the flushes whose store write had failed before it
\* was triggered (after), the queue at its failed write (atFail) and the
\* queue it cleared (cleared).
handleEvent(e) ==
  /\ nEvents - backlog + Len(batchRuns) < MaxEvents
  /\ LET t == now + 1
         evt == Labelled([timestamp |-> t] @@ e)
         s2 == Ingested([cw |-> currentWorkflow, q |-> queue], evt, t)
     IN /\ now' = t
        /\ IF ShouldFlush(s2.q, evt)
           THEN LET s3 == finishWorkflow(s2)
                    id == Len(flushes) + 1
                    f == [id |-> id, port |-> port, batch |-> s3.q,
                          trigger |-> evt.type, summary |-> 0,
                          written |-> <<>>, errored |-> FALSE,
                          after |-> {i \in 1..Len(flushes) :
                                       flushes[i].pc = "storeFailed"},
                          atFail |-> <<>>, cleared |-> <<>>,
                          pc |-> IF port = 0 THEN "threw" ELSE "awaitSummary"]
                IN /\ queue' = s3.q
                   /\ currentWorkflow' = s3.cw
                   /\ flushes' = Append(flushes, f)
                   /\ c2r' = IF port = 0 THEN c2r
                             ELSE Append(c2r, [cmd |-> "summarise", id |-> id,
                                               events |-> Enhance(s3.q),
                                               port |-> port])
           ELSE /\ queue' = s2.q
                /\ currentWorkflow' = s2.cw
                /\ UNCHANGED <<flushes, c2r>>
  /\ nEvents' = nEvents + 1
  /\ UNCHANGED <<port, connecting, r2c, pending, toSum, fromSum, sumCache,
                 sumJobs, store, storeQ, backlog, conns, delivered>>
  /\ UNCHANGED vlmVars
  /\ UNCHANGED batchRuns

\* the runtime.onMessage listener on an 'evt' message: handleEvent on it
Ingest(e) ==
  /\ handleEvent(e)
  /\ UNCHANGED surface

\* k plain clicks handled back to back: k runs of handleEvent none of which
\* reaches the flush branch
RECURSIVE PlainRun(_, _, _)
PlainRun(s, t, k) ==
  IF k = 0 THEN s
  ELSE LET e == CHOOSE x \in PlainKinds : TRUE
       IN PlainRun(Ingested(s, [timestamp |-> t + 1] @@ e, t + 1), t + 1, k - 1)

\* the session starts with k plain clicks, two or three short of a full batch
Backlogs == {MAX_BATCH_SIZE - 3, MAX_BATCH_SIZE - 2}

IngestBacklog(k) ==
  /\ nEvents = 0
  /\ LET s == PlainRun([cw |-> currentWorkflow, q |-> queue], now, k)
     IN /\ queue' = s.q
        /\ currentWorkflow' = s.cw
  /\ now' = now + k
  /\ nEvents' = k
  /\ backlog' = k
  /\ UNCHANGED <<port, connecting, flushes, c2r, r2c, pending, toSum, fromSum,
                 sumCache, sumJobs, store, storeQ, conns, delivered>>
  /\ UNCHANGED vlmVars
  /\ UNCHANGED surface
  /\ UNCHANGED batchRuns

\* time passes after the last step of the Active workflow (the only time
\* the code reads is the time since currentWorkflow.lastEventTime)
Tick(d) ==
  /\ currentWorkflow.type # Null
  /\ currentWorkflow.lastEventTime = now
  /\ now' = now + d
  /\ UNCHANGED <<queue, currentWorkflow, port, connecting, flushes, c2r, r2c,
                 pending, toSum, fromSum, sumCache, sumJobs, store, storeQ,
                 nEvents, backlog, conns, delivered>>
  /\ UNCHANGED vlmVars
  /\ UNCHANGED surface
  /\ UNCHANGED batchRuns

\* connectToMLPipe, after ensureOffscreen: port = chrome.runtime.connect(...)
Connect ==
  /\ connecting
  /\ conns < MaxConn
  /\ port' = conns + 1
  /\ conns' = conns + 1
  /\ connecting' = FALSE
  /\ UNCHANGED <<queue, currentWorkflow, now, flushes, c2r, r2c, pending,
                 toSum, fromSum, sumCache, sumJobs, store, storeQ,
                 nEvents, backlog, delivered>>
  /\ UNCHANGED vlmVars
  /\ UNCHANGED surface
  /\ UNCHANGED batchRuns

\* the host tears the channel down; port.onDisconnect: port = null, reconnect.
\* Messages in flight on the channel are lost with it.
Disconnect ==
  /\ port # 0
  /\ conns < MaxConn
  /\ port' = 0
  /\ connecting' = TRUE
  /\ c2r' = <<>>
  /\ r2c' = <<>>
  /\ UNCHANGED <<queue, currentWorkflow, now, flushes, pending, toSum,
                 fromSum, sumCache, sumJobs, store, storeQ,
                 nEvents, backlog, conns, delivered>>
  /\ UNCHANGED vlmVars
  /\ UNCHANGED surface
  /\ UNCHANGED batchRuns

\* a reply listener of describeWithVLM that takes whatever arrives
ResolvesDescribeAny(msg, id) == TRUE

\* the reply listener of describeWithVLM: does msg resolve the request id?
ResolvesDescribe(msg, id) == msg.id = id /\ "description" \in DOMAIN msg

\* the ids of the describe requests: the n-th one made is -n
DescribeId(runs) ==
  LET RECURSIVE Made(_)
      Made(k) == IF k = 0 THEN 0 ELSE runs[k].made + Made(k - 1)
  IN 0 - (Made(Len(runs)) + 1)

\* describeWithVLM({imgBase64: screenshot, ...}) posts its command
DescribeCommand(id, p) ==
  [cmd |-> "describe", id |-> id,
   imgBase64 |-> [prefix |-> "iVBORw0KGgo", rest |-> 0], port |-> p]

\* The listener on a 'process_batch' message of n screenshots, up to its
\* first await: describeWithVLM on the first screenshot. A run is one record
\* of batchRuns: the id and port of the describe request it awaits, the
\* screenshots left, the descriptions it has, its position (pc) and, as
\* history, the describe requests it made (made), the replies that resolved
\* one (resolved) and the flushes that awaited their summary when it posted
\* its request (during).
ProcessBatchMessage(n) ==
  /\ nEvents - backlog + Len(batchRuns) < MaxEvents
  /\ LET id == DescribeId(batchRuns)
         run == [id |-> id, port |-> port, left |-> n - 1,
                 descriptions |-> <<>>, made |-> 1, resolved |-> 0,
                 during |-> {i \in 1..Len(flushes) :
                               flushes[i].pc = "awaitSummary"},
                 pc |-> IF port = 0 THEN "threw" ELSE "awaitDescription"]
     IN /\ batchRuns' = Append(batchRuns, run)
        /\ c2r' = IF port = 0 THEN c2r
                  ELSE Append(c2r, DescribeCommand(id, port))
  /\ UNCHANGED <<queue, currentWorkflow, port, connecting, now, flushes, r2c,
                 pending, toSum, fromSum, sumCache, sumJobs, store, storeQ,
                 nEvents, backlog, conns, delivered>>
  /\ UNCHANGED vlmVars
  /\ UNCHANGED surface

\* the run whose describe request msg resolves goes on: describeWithVLM on
\* the next screenshot, or, after the last one, the map over the
\* descriptions, which reads msg.metadata.triggers[i] of a message that has
\* no triggers and throws
Described(runs, msg) ==
  LET hit == {i \in 1..Len(runs) :
                /\ runs[i].pc = "awaitDescription"
                /\ runs[i].port = msg.port
                /\ ResolvesDescribe(msg, runs[i].id)}
  IN [i \in 1..Len(runs) |->
        LET r == runs[i]
            got == [r EXCEPT !.descriptions =
                                Append(@, IF "description" \in DOMAIN msg
                                          THEN msg.description ELSE 0),
                             !.resolved = @ + 1]
        IN IF i \notin hit THEN r
           ELSE IF r.left = 0 THEN [got EXCEPT !.pc = "threw"]
           ELSE [got EXCEPT !.id = DescribeId(runs),
                            !.left = @ - 1,
                            !.made = @ + 1]]

\* port.onMessage of the Coordinator: every listener registered on the port
\* sees the message; the listener of the request it resolves continues
\* handleEvent up to its store write, or the run of the process_batch
\* listener up to its next await
CoordReceive ==
  /\ r2c # <<>>
  /\ LET msg == Head(r2c)
         hit == {i \in 1..Len(flushes) :
                   /\ flushes[i].pc = "awaitSummary"
                   /\ flushes[i].port = msg.port
                   /\ Resolves(msg, flushes[i].id)}
         runs == Described(batchRuns, msg)
         posted == {i \in 1..Len(runs) : runs[i].made > batchRuns[i].made}
     IN /\ flushes' =
             [i \in 1..Len(flushes) |->
                LET f == flushes[i]
                IN IF i \in hit
                   THEN [f EXCEPT !.pc = "awaitStore",
                                  !.summary = SummaryOf(msg),
                                  !.written = Sanitize(queue)]
                   ELSE IF /\ f.pc = "awaitSummary"
                           /\ f.port = msg.port
                           /\ msg.id = f.id
                        THEN [f EXCEPT !.errored = TRUE]
                        ELSE f]
        /\ storeQ' = IF hit = {} THEN storeQ
                     ELSE Append(storeQ, CHOOSE i \in hit : TRUE)
        /\ batchRuns' = runs
        /\ c2r' = IF posted = {} THEN c2r
                  ELSE LET i == CHOOSE i \in posted : TRUE
                       IN Append(c2r, DescribeCommand(runs[i].id, port))
  /\ r2c' = Tail(r2c)
  /\ UNCHANGED <<queue, currentWorkflow, port, connecting, now, pending,
                 toSum, fromSum, sumCache, sumJobs, store,
                 nEvents, backlog, conns, delivered>>
  /\ UNCHANGED vlmVars
  /\ UNCHANGED surface

\* the oldest chrome.storage.local.set completes (the store serves the calls
\* in the order they were made); on success handleEvent clears the queue
StoreDone(ok) ==
  /\ storeQ # <<>>
  /\ LET i == Head(storeQ)
     IN IF ok
        THEN /\ store' = [log |-> flushes[i].summary,
                          events |-> flushes[i].written,
                          writes |-> store.writes + 1]
             /\ queue' = <<>>
             /\ flushes' = [flushes EXCEPT ![i].pc = "done",
                                           ![i].cleared = queue]
        ELSE /\ flushes' = [flushes EXCEPT ![i].pc = "storeFailed",
                                           ![i].atFail = queue]
             /\ UNCHANGED <<store, queue>>
  /\ storeQ' = Tail(storeQ)
  /\ UNCHANGED <<currentWorkflow, port, connecting, now, c2r, r2c, pending,
                 toSum, fromSum, sumCache, sumJobs,
                 nEvents, backlog, conns, delivered>>
  /\ UNCHANGED vlmVars
  /\ UNCHANGED surface
  /\ UNCHANGED batchRuns

\* ------------------------------------------------------------------ router
PendingHas(id) == \E k \in 1..Len(pending) : pending[k].id = id

PendingGet(id) == pending[CHOOSE k \in 1..Len(pending) : pending[k].id = id]

PendingDelete(id) == SelectSeq(pending, LAMBDA x : x.id # id)

\* pending.set(id, {port})
PendingSet(id, p) ==
  IF PendingHas(id)
  THEN [k \in 1..Len(pending) |->
          IF pending[k].id = id THEN [id |-> id, port |-> p] ELSE pending[k]]
  ELSE Append(pending, [id |-> id, port |-> p])

\* the wire form of a message: what the worker and the receiving port see
Payload(msg) == [f \in DOMAIN msg \ {"port"} |-> msg[f]]

\* port.onMessage of the offscreen controller: a describe command goes to
\* the describer, a summarise command to the summarizer
RouterReceive ==
  /\ c2r # <<>>
  /\ LET msg == Head(c2r)
     IN /\ pending' = PendingSet(msg.id, msg.port)
        /\ IF msg.cmd = "describe"
           THEN /\ toVlm' = Append(toVlm, Payload(msg))
                /\ UNCHANGED toSum
           ELSE /\ toSum' = Append(toSum, Payload(msg))
                /\ UNCHANGED toVlm
  /\ c2r' = Tail(c2r)
  /\ UNCHANGED <<queue, currentWorkflow, port, connecting, now, flushes, r2c,
                 fromSum, sumCache, sumJobs, store, storeQ,
                 nEvents, backlog, conns, delivered>>
  /\ UNCHANGED <<fromVlm, responseCache, vlmJobs, reqs>>
  /\ UNCHANGED surface
  /\ UNCHANGED batchRuns

\* routeResponse that posts the reply on whichever channel is connected now
RouteResponseCurrentPort ==
  /\ fromSum # <<>>
  /\ LET data == Head(fromSum)
     IN IF ~PendingHas(data.id) \/ port = 0
        THEN UNCHANGED <<r2c, pending, delivered>>
        ELSE /\ r2c' = Append(r2c, [port |-> port] @@ data)
             /\ delivered' = Append(delivered, [port |-> port, id |-> data.id])
             /\ pending' = PendingDelete(data.id)
  /\ fromSum' = Tail(fromSum)
  /\ UNCHANGED <<queue, currentWorkflow, port, connecting, now, flushes, c2r,
                 toSum, sumCache, sumJobs, store, storeQ,
                 nEvents, backlog, conns>>
  /\ UNCHANGED vlmVars
  /\ UNCHANGED surface
  /\ UNCHANGED batchRuns

\* routeResponse('sum', {data}): a reply of the worker arrives
RouteResponse ==
  /\ fromSum # <<>>
  /\ LET data == Head(fromSum)
     IN IF ~PendingHas(data.id)
        THEN UNCHANGED <<r2c, pending, delivered>>
        ELSE LET entry == PendingGet(data.id)
             IN IF entry.port = port
                THEN /\ r2c' = Append(r2c, [port |-> entry.port] @@ data)
                     /\ delivered' = Append(delivered, [port |-> entry.port,
                                                        id |-> data.id])
                     /\ pending' = PendingDelete(data.id)
                ELSE \* postMessage on a disconnected port throws
                     UNCHANGED <<r2c, pending, delivered>>
  /\ fromSum' = Tail(fromSum)
  /\ UNCHANGED <<queue, currentWorkflow, port, connecting, now, flushes, c2r,
                 toSum, sumCache, sumJobs, store, storeQ,
                 nEvents, backlog, conns>>
  /\ UNCHANGED vlmVars
  /\ UNCHANGED surface
  /\ UNCHANGED batchRuns

\* -------------------------------------------------------------- summarizer
CacheHas(key) == \E k \in 1..Len(sumCache) : sumCache[k].key = key

CacheGet(key) == sumCache[CHOOSE k \in 1..Len(sumCache) : sumCache[k].key = key].value

\* a cache that evicts its second-oldest key
CacheSetKeepFirst(key, response) ==
  LET c1 == IF CacheHas(key)
            THEN [k \in 1..Len(sumCache) |->
                    IF sumCache[k].key = key
                    THEN [key |-> key, value |-> response] ELSE sumCache[k]]
            ELSE Append(sumCache, [key |-> key, value |-> response])
  IN IF Len(c1) > MAX_CACHE_SIZE
     THEN <<c1[1]>> \o SubSeq(c1, 3, Len(c1)) ELSE c1

\* summaryCache.set(key, response), then the eviction of the first key
CacheSet(key, response) ==
  LET c1 == IF CacheHas(key)
            THEN [k \in 1..Len(sumCache) |->
                    IF sumCache[k].key = key
                    THEN [key |-> key, value |-> response] ELSE sumCache[k]]
            ELSE Append(sumCache, [key |-> key, value |-> response])
  IN IF Len(c1) > MAX_CACHE_SIZE THEN Tail(c1) ELSE c1

\* self.onmessage of the summarizer, up to the inference call
SumReceive ==
  /\ toSum # <<>>
  /\ LET data == Head(toSum)
         cacheKey == generateCacheKey(data.events)
     IN IF CacheHas(cacheKey)
        THEN /\ fromSum' = Append(fromSum, CacheGet(cacheKey))
             /\ UNCHANGED sumJobs
        ELSE /\ sumJobs' = Append(sumJobs, [id |-> data.id, key |-> cacheKey])
             /\ UNCHANGED fromSum
  /\ toSum' = Tail(toSum)
  /\ UNCHANGED <<queue, currentWorkflow, port, connecting, now, flushes, c2r,
                 r2c, pending, sumCache, store, storeQ,
                 nEvents, backlog, conns, delivered>>
  /\ UNCHANGED vlmVars
  /\ UNCHANGED surface
  /\ UNCHANGED batchRuns

\* engine.chat.completions.create returns (ok) or throws
SumInfer(j, ok) ==
  /\ j \in 1..Len(sumJobs)
  /\ LET job == sumJobs[j]
         response == [id |-> job.id, summary |-> job.id]
     IN IF ok
        THEN /\ sumCache' = CacheSet(job.key, response)
             /\ fromSum' = Append(fromSum, response)
        ELSE /\ fromSum' = Append(fromSum, [id |-> job.id, error |-> "failed"])
             /\ UNCHANGED sumCache
  /\ sumJobs' = [k \in 1..(Len(sumJobs) - 1) |->
                   IF k < j THEN sumJobs[k] ELSE sumJobs[k + 1]]
  /\ UNCHANGED <<queue, currentWorkflow, port, connecting, now, flushes, c2r,
                 r2c, pending, toSum, store, storeQ,
                 nEvents, backlog, conns, delivered>>
  /\ UNCHANGED vlmVars
  /\ UNCHANGED surface
  /\ UNCHANGED batchRuns

\* --------------------------------------------------------------- describer
\* imgBase64.slice(0, 100): an image is its first 100 characters and the rest
ImagePrefix(img) == img.prefix

\* the cache key of the describer: the request id and the image prefix
VlmCacheKey(data) == <<data.id, ImagePrefix(data.imgBase64)>>

VlmCacheHas(key) == \E k \in 1..Len(responseCache) : responseCache[k].key = key

VlmCacheGet(key) ==
  responseCache[CHOOSE k \in 1..Len(responseCache) :
                  responseCache[k].key = key].value

\* responseCache.set(key, response) with no eviction
VlmCacheSetNoEviction(key, response) ==
  IF VlmCacheHas(key)
  THEN [k \in 1..Len(responseCache) |->
          IF responseCache[k].key = key
          THEN [key |-> key, value |-> response]
          ELSE responseCache[k]]
  ELSE Append(responseCache, [key |-> key, value |-> response])

\* responseCache.set(key, response), then the eviction of the first key
VlmCacheSet(key, response) ==
  LET c1 == IF VlmCacheHas(key)
            THEN [k \in 1..Len(responseCache) |->
                    IF responseCache[k].key = key
                    THEN [key |-> key, value |-> response]
                    ELSE responseCache[k]]
            ELSE Append(responseCache, [key |-> key, value |-> response])
  IN IF Len(c1) > VLM_CACHE_SIZE THEN Tail(c1) ELSE c1

\* self.onmessage of the describer, up to the inference call
VlmReceive ==
  /\ toVlm # <<>>
  /\ LET data == Head(toVlm)
         cacheKey == VlmCacheKey(data)
     IN IF VlmCacheHas(cacheKey)
        THEN /\ fromVlm' = Append(fromVlm, VlmCacheGet(cacheKey))
             /\ UNCHANGED vlmJobs
        ELSE /\ vlmJobs' = Append(vlmJobs, [id |-> data.id, key |-> cacheKey])
             /\ UNCHANGED fromVlm
  /\ toVlm' = Tail(toVlm)
  /\ UNCHANGED <<queue, currentWorkflow, port, connecting, now, flushes, c2r,
                 r2c, pending, toSum, fromSum, sumCache, sumJobs, store,
                 storeQ, nEvents, backlog, conns, delivered,
                 responseCache, reqs>>
  /\ UNCHANGED surface
  /\ UNCHANGED batchRuns

\* engine.chat.completions.create of the describer returns (ok) or throws
VlmInfer(j, ok) ==
  /\ j \in 1..Len(vlmJobs)
  /\ LET job == vlmJobs[j]
         response == [id |-> job.id, description |-> job.id]
     IN IF ok
        THEN /\ responseCache' = VlmCacheSet(job.key, response)
             /\ fromVlm' = Append(fromVlm, response)
        ELSE /\ fromVlm' = Append(fromVlm, [id |-> job.id, error |-> "failed"])
             /\ UNCHANGED responseCache
  /\ vlmJobs' = [k \in 1..(Len(vlmJobs) - 1) |->
                   IF k < j THEN vlmJobs[k] ELSE vlmJobs[k + 1]]
  /\ UNCHANGED <<queue, currentWorkflow, port, connecting, now, flushes, c2r,
                 r2c, pending, toSum, fromSum, sumCache, sumJobs, store,
                 storeQ, nEvents, backlog, conns, delivered, toVlm, reqs>>
  /\ UNCHANGED surface
  /\ UNCHANGED batchRuns

\* routeResponse('vlm', {data}): a reply of the describer arrives
RouteVlmResponse ==
  /\ fromVlm # <<>>
  /\ LET data == Head(fromVlm)
     IN IF ~PendingHas(data.id)
        THEN UNCHANGED <<r2c, pending, delivered>>
        ELSE LET entry == PendingGet(data.id)
             IN IF entry.port = port
                THEN /\ r2c' = Append(r2c, [port |-> entry.port] @@ data)
                     /\ delivered' = Append(delivered, [port |-> entry.port,
                                                        id |-> data.id])
                     /\ pending' = PendingDelete(data.id)
                ELSE UNCHANGED <<r2c, pending, delivered>>
  /\ fromVlm' = Tail(fromVlm)
  /\ UNCHANGED <<queue, currentWorkflow, port, connecting, now, flushes, c2r,
                 toSum, fromSum, sumCache, sumJobs, store, storeQ,
                 nEvents, backlog, conns, toVlm, responseCache, vlmJobs, reqs>>
  /\ UNCHANGED surface
  /\ UNCHANGED batchRuns

\* ----------------------------------------------- the workers on their own
\* two screenshots that agree on their first 100 characters
Images == {[prefix |-> "iVBORw0KGgo", rest |-> 1],
           [prefix |-> "iVBORw0KGgo", rest |-> 2]}

\* the ids some message, job or cache entry of a worker still carries
UsedIds ==
  {toVlm[k].id : k \in 1..Len(toVlm)}
  \cup {vlmJobs[k].id : k \in 1..Len(vlmJobs)}
  \cup {fromVlm[k].id : k \in 1..Len(fromVlm)}
  \cup {responseCache[k].value.id : k \in 1..Len(responseCache)}
  \cup {toSum[k].id : k \in 1..Len(toSum)}
  \cup {sumJobs[k].id : k \in 1..Len(sumJobs)}
  \cup {fromSum[k].id : k \in 1..Len(fromSum)}
  \cup {sumCache[k].value.id : k \in 1..Len(sumCache)}

\* crypto.randomUUID(): an id nothing carries; of the ids that are equally
\* new the least one stands for all
FreshId == CHOOSE n \in 1..(Cardinality(UsedIds) + 1) : n \notin UsedIds

\* the timestamps of the events the summarizer still knows
UsedTimes ==
  {toSum[k].events.otherEvents[1].timestamp : k \in 1..Len(toSum)}
  \cup {sumJobs[k].key[1][3] : k \in 1..Len(sumJobs)}
  \cup {sumCache[k].key[1][3] : k \in 1..Len(sumCache)}

\* the timestamp of a new event, distinct from every one still known: the
\* number of the fresh id where that is one, else the least one
FreshTime ==
  IF FreshId \notin UsedTimes \cup {1} THEN FreshId
  ELSE CHOOSE n \in 1..(Cardinality(UsedTimes) + 2) :
         n \notin UsedTimes /\ n # 1

\* a describe command reaches the describer: describeWithVLM posts it with a
\* fresh id, the Router hands it on unchanged. The caller awaits each reply
\* before the next describe. A behaviour drives one of the two workers.
DescribeRequest(img) ==
  /\ reqs < VLM_CACHE_SIZE + MaxExtra
  /\ toVlm = <<>> /\ vlmJobs = <<>> /\ fromVlm = <<>>
  /\ toSum = <<>> /\ sumJobs = <<>> /\ sumCache = <<>> /\ fromSum = <<>>
  /\ toVlm' = Append(toVlm, [cmd |-> "describe", id |-> FreshId,
                             imgBase64 |-> img])
  /\ reqs' = reqs + 1
  /\ UNCHANGED <<queue, currentWorkflow, port, connecting, now, flushes, c2r,
                 r2c, pending, toSum, fromSum, sumCache, sumJobs, store,
                 storeQ, nEvents, backlog, conns, delivered,
                 fromVlm, responseCache, vlmJobs>>
  /\ UNCHANGED surface
  /\ UNCHANGED batchRuns

\* a summarise command reaches the summarizer; its batch is one raw event,
\* either a new one or the event of timestamp 1 (again)
SummariseRequest(again) ==
  /\ reqs < MAX_CACHE_SIZE + MaxExtra
  /\ toSum = <<>> /\ sumJobs = <<>> /\ fromSum = <<>>
  /\ toVlm = <<>> /\ vlmJobs = <<>> /\ responseCache = <<>> /\ fromVlm = <<>>
  /\ LET t == IF again THEN 1 ELSE FreshTime
     IN toSum' = Append(toSum,
                        [cmd |-> "summarise", id |-> FreshId,
                         events |-> Enhance(<<[type |-> "click",
                                               timestamp |-> t]>>)])
  /\ reqs' = reqs + 1
  /\ UNCHANGED <<queue, currentWorkflow, port, connecting, now, flushes, c2r,
                 r2c, pending, fromSum, sumCache, sumJobs, store,
                 storeQ, nEvents, backlog, conns, delivered,
                 toVlm, fromVlm, responseCache, vlmJobs>>
  /\ UNCHANGED surface
  /\ UNCHANGED batchRuns

\* ---------------------------------------------------------- capture surface
\* The content script of one page. surface.timers counts the live setInterval
\* timers and surface.screenshotInterval says whether the handle is set;
\* surface.content is the fingerprint getPageContentHash() would compute now;
\* surface.capturing holds the timer callbacks suspended in
\* `await captureScreenshot`, each with the `now` it read and the response
\* its message has got so far. As history, surface.captures holds the times
\* of the capture requests and surface.captured what the page was like at
\* the last of them: whether it was hidden, its fingerprint, and whether that
\* was the fingerprint of the capture before.

\* startScreenshotCapture() without the test of the handle
startScreenshotCaptureAlways(sf, t) ==
  [sf EXCEPT !.screenshotInterval = TRUE,
             !.timers = @ + 1,
             !.nextFire = t + SCREENSHOT_INTERVAL]

\* startScreenshotCapture() at time t
startScreenshotCapture(sf, t) ==
  IF sf.screenshotInterval THEN sf
  ELSE [sf EXCEPT !.screenshotInterval = TRUE,
                  !.timers = @ + 1,
                  !.nextFire = t + SCREENSHOT_INTERVAL]

\* stopScreenshotCapture()
stopScreenshotCapture(sf) ==
  IF sf.screenshotInterval
  THEN [sf EXCEPT !.screenshotInterval = FALSE,
                  !.timers = @ - 1,
                  !.nextFire = NoTime]
  ELSE sf

\* the screenshots pushed so far are numbered in the order of the pushes;
\* screenshotBatch holds the last sf.screenshotBatch of them
InBatch(sf) == (Len(sf.sent) - sf.screenshotBatch + 1)..Len(sf.sent)

\* processBatch(): sends the batch for analysis unless it is empty. sent[i]
\* counts the process_batch messages that carried screenshot i
processBatch(sf) ==
  IF sf.screenshotBatch = 0 THEN sf
  ELSE [sf EXCEPT !.processing = @ + 1,
                  !.sent = [i \in DOMAIN @ |->
                              IF i \in InBatch(sf) THEN @[i] + 1 ELSE @[i]]]

\* the page is ready (readyState complete, or the load event)
Load ==
  /\ ~surface.loaded
  /\ surface' = [startScreenshotCapture(surface, now) EXCEPT !.loaded = TRUE]
  /\ UNCHANGED <<now, coreVars, vlmVars, batchRuns>>

\* visibilitychange to hidden: processBatch, stopScreenshotCapture
Hide ==
  /\ ~surface.hidden
  /\ surface.signals < MaxSignals
  /\ surface' = stopScreenshotCapture(
                  [processBatch(surface) EXCEPT !.hidden = TRUE,
                                                !.signals = @ + 1])
  /\ UNCHANGED <<now, coreVars, vlmVars, batchRuns>>

\* visibilitychange to visible: startScreenshotCapture
Show ==
  /\ surface.hidden
  /\ surface.signals < MaxSignals
  /\ surface' = startScreenshotCapture(
                  [surface EXCEPT !.hidden = FALSE, !.signals = @ + 1], now)
  /\ UNCHANGED <<now, coreVars, vlmVars, batchRuns>>

\* the page changes what it shows. No MutationObserver watches document.body
\* (startDOMObservation, which would install the one that calls
\* checkAndTakeScreenshot, is called nowhere): screenshotTimeout and
\* lastDOMHash stay as they were initialised
Mutate ==
  /\ surface.signals < MaxSignals
  /\ surface' = [surface EXCEPT !.content = 1 - @, !.signals = @ + 1]
  /\ UNCHANGED <<now, coreVars, vlmVars, batchRuns>>

\* the tests the timer callback returns early on
PeriodicSkips(sf, t) ==
  sf.hidden \/ t - sf.lastScreenshotTime < SCREENSHOT_INTERVAL

\* the callback of setInterval fires, SCREENSHOT_INTERVAL after the last
\* one: it returns early or requests a capture and suspends
IntervalFire ==
  /\ surface.timers > 0
  /\ surface.signals < MaxSignals
  /\ now <= surface.nextFire
  /\ now' = surface.nextFire
  /\ LET t == surface.nextFire
         sf == [surface EXCEPT !.nextFire = t + SCREENSHOT_INTERVAL,
                               !.signals = @ + 1]
     IN IF PeriodicSkips(surface, t)
        THEN surface' = sf
        ELSE surface' =
               [sf EXCEPT !.capturing = Append(@, [now |-> t, resp |-> "none"]),
                          !.captures = Append(@, t),
                          !.captured = <<[hidden |-> surface.hidden,
                                          content |-> surface.content,
                                          unchanged |->
                                            /\ surface.captured # <<>>
                                            /\ surface.captured[1].content
                                                 = surface.content]>>]
  /\ UNCHANGED <<coreVars, vlmVars, batchRuns>>

\* what the listener answers a 'screenshot' message with: {skipped: true}
\* from a tab that is not the active one, {error} when captureVisibleTab
\* throws, and otherwise what follows handleEvent on the frame
Outcomes == {"skipped", "error", "handled"}

\* a listener that wraps the frame whatever tabs.query and captureVisibleTab
\* said
FrameTakenAnyway(outcome) == TRUE

\* the listener reaches handleEvent: the sender is the active tab and
\* captureVisibleTab returned a frame
FrameTaken(outcome) == outcome = "handled"

\* the runtime.onMessage listener on the oldest 'screenshot' message not
\* yet handled
ScreenshotMessage(outcome) ==
  \E k \in 1..Len(surface.capturing) :
    /\ surface.capturing[k].resp = "none"
    /\ \A j \in 1..(k - 1) : surface.capturing[j].resp # "none"
    /\ surface' = [surface EXCEPT !.capturing[k].resp = outcome]
    /\ IF FrameTaken(outcome)
       THEN handleEvent(CHOOSE e \in ShotKinds : TRUE)
       ELSE UNCHANGED <<now, coreVars, vlmVars, batchRuns>>

\* response && response.screenshot: only a response that follows handleEvent
\* can carry a screenshot (got), and it carries none when handleEvent threw
HasScreenshot(resp, got) == resp = "handled" /\ got

\* captureScreenshot returns to the suspended callback, with a screenshot
\* or without: lastScreenshotTime = now, then processBatch on a full batch
CaptureReturns(got) ==
  /\ surface.capturing # <<>>
  /\ Head(surface.capturing).resp # "none"
  /\ LET c == Head(surface.capturing)
         sf == [surface EXCEPT
                  !.capturing = Tail(@),
                  !.screenshotBatch = IF HasScreenshot(c.resp, got)
                                      THEN @ + 1 ELSE @,
                  !.sent = IF HasScreenshot(c.resp, got)
                           THEN Append(@, 0) ELSE @,
                  !.lastScreenshotTime = c.now]
     IN surface' = IF sf.screenshotBatch >= BATCH_SIZE
                   THEN processBatch(sf) ELSE sf
  /\ UNCHANGED <<now, coreVars, vlmVars, batchRuns>>

\* the process_batch message is answered (ok) or fails: on success
\* processBatch empties screenshotBatch
BatchReturns(ok) ==
  /\ surface.processing > 0
  /\ surface' = [surface EXCEPT !.processing = @ - 1,
                                !.screenshotBatch = IF ok THEN 0 ELSE @]
  /\ UNCHANGED <<now, coreVars, vlmVars, batchRuns>>

\* ------------------------------------------------------------ event context
\* Texts are sequences of characters; the empty one stands for '', null and
\* undefined alike (all three are falsy)
Chars == {"a", "b"}

\* the form fields of the page: input elements outside any form and any
\* labelled container, with their attributes; valueAttr is the value attribute
\* of the markup, value the current value of the field
Fields ==
  {[type |-> "password", ariaLabel |-> <<>>, title |-> <<>>, alt |-> <<>>,
    name |-> <<>>, placeholder |-> <<>>, id |-> <<>>, valueAttr |-> <<>>,
    required |-> FALSE, value |-> <<>>],
   [type |-> "password", ariaLabel |-> <<>>, title |-> <<>>, alt |-> <<>>,
    name |-> <<"p", "w">>, placeholder |-> <<>>, id |-> <<"p", "w">>,
    valueAttr |-> <<>>, required |-> TRUE, value |-> <<>>],
   [type |-> "password", ariaLabel |-> <<>>, title |-> <<>>, alt |-> <<>>,
    name |-> <<>>, placeholder |-> <<"k", "e", "y">>, id |-> <<>>,
    valueAttr |-> <<>>, required |-> FALSE, value |-> <<>>],
   [type |-> "text", ariaLabel |-> <<>>, title |-> <<>>, alt |-> <<>>,
    name |-> <<>>, placeholder |-> <<>>, id |-> <<"q">>, valueAttr |-> <<>>,
    required |-> FALSE, value |-> <<>>]}

\* a || b
Or(a, b) == IF a # <<>> THEN a ELSE b

\* '*'.repeat(n)
Repeat(n) == [i \in 1..n |-> "*"]

\* domPath(el), the part for el itself: the node name and the identifying
\* attributes that are set
domPath(el) ==
  LET attrs == [id |-> el.id, name |-> el.name, type |-> <<el.type>>,
                ariaLabel |-> el.ariaLabel, value |-> el.valueAttr,
                placeholder |-> el.placeholder]
      isSet == {a \in DOMAIN attrs : attrs[a] # <<>>}
  IN [node |-> "input", attrs |-> [a \in isSet |-> attrs[a]]]

\* getElementState(el): the states of el that hold
getElementState(el) == IF el.required THEN <<"required">> ELSE <<>>

\* getFormFieldValue(el)
getFormFieldValue(el) ==
  LET type == el.type
      details == [type |-> type, name |-> el.name, id |-> el.id]
  IN IF type = "password"
     THEN details @@ [value |-> Repeat(Len(el.value))]
     ELSE IF type \in {"checkbox", "radio"}
          THEN details @@ [checked |-> el.checked]
          ELSE details @@ [value |-> el.value]

\* getEventContext(target, type) at time t, for a target that is an input
\* element (by textContent an input has none)
getEventContext(target, type, t) ==
  LET context == [url |-> "page", pageTitle |-> "title", timestamp |-> t,
                  type |-> type, frameId |-> "main"]
      identifier ==
        Or(target.ariaLabel, Or(target.title, Or(target.alt,
        Or(target.name, Or(target.placeholder, Or(target.value,
        Or(<<>>, target.id)))))))
      element == [elementType |-> "input", path |-> domPath(target),
                  state |-> getElementState(target),
                  identifier |-> identifier]
  IN IF type = "navigation"
     THEN context @@ [description |-> <<"Navigated to", "title", "page">>]
     ELSE IF target.type \in {"submit", "button"}
          THEN context @@ element
                 @@ [description |-> <<"Clicked button", identifier>>]
          ELSE LET fieldValue == getFormFieldValue(target)
               IN context @@ element
                    @@ [fieldValue |-> fieldValue,
                        description |-> <<"Interacted with", fieldValue.type,
                                          "field", identifier>>]

\* handler(e): the message sent for an event of a kind in KEEP
EventMessage(target, type, t) ==
  [kind |-> "evt"] @@ getEventContext(target, type, t)

\* the page shows one of its form fields, empty
ShowField(f) ==
  /\ surface.target = <<>>
  /\ surface' = [surface EXCEPT !.target = <<f>>]
  /\ UNCHANGED <<now, coreVars, vlmVars, batchRuns>>

\* the user types a character into the field: the value grows and the
\* handler runs on the input event
TypeKey(c) ==
  /\ surface.target # <<>>
  /\ Len(surface.target[1].value) < MaxValue
  /\ LET el == [surface.target[1] EXCEPT !.value = Append(@, c)]
     IN surface' = [surface EXCEPT
                      !.target = <<el>>,
                      !.message = <<EventMessage(el, "input", now)>>]
  /\ UNCHANGED <<now, coreVars, vlmVars, batchRuns>>

\* the kinds of event on a field that leave its value alone
FieldEventTypes == {"click", "focus", "blur", "change"}

\* the handler runs on an event of kind type on the field
FieldEvent(type) ==
  /\ surface.target # <<>>
  /\ surface' = [surface EXCEPT
                   !.message =
                     <<EventMessage(surface.target[1], type, now)>>]
  /\ UNCHANGED <<now, coreVars, vlmVars, batchRuns>>

\* ----------------------------------------------------------- specification
\* the numbers of screenshots in a process_batch message
BatchSizes == {1, 2}

\* the gaps between two events: one that exceeds the workflow timeout
TickSteps == {WORKFLOW_TIMEOUT}

Next ==
  \/ \E e \in EventKinds : Ingest(e)
  \/ \E k \in Backlogs : IngestBacklog(k)
  \/ \E d \in TickSteps : Tick(d)
  \/ Connect
  \/ Disconnect
  \/ CoordReceive
  \/ \E ok \in BOOLEAN : StoreDone(ok)
  \/ RouterReceive
  \/ RouteResponse
  \/ SumReceive
  \/ \E j \in 1..Len(sumJobs), ok \in BOOLEAN : SumInfer(j, ok)

Spec == Init /\ [][Next]_vars

\* the two workers driven by requests, without the Coordinator
NextWorkers ==
  \/ \E img \in Images : DescribeRequest(img)
  \/ \E again \in BOOLEAN : SummariseRequest(again)
  \/ VlmReceive
  \/ \E j \in 1..Len(vlmJobs), ok \in BOOLEAN : VlmInfer(j, ok)
  \/ RouteVlmResponse
  \/ SumReceive
  \/ \E j \in 1..Len(sumJobs), ok \in BOOLEAN : SumInfer(j, ok)
  \/ RouteResponse

SpecWorkers == Init /\ [][NextWorkers]_vars

\* the background worker with both kinds of request: flushes that summarise
\* and process_batch runs that describe, over one connection
NextCalls ==
  \/ \E e \in EventKinds : Ingest(e)
  \/ \E n \in BatchSizes : ProcessBatchMessage(n)
  \/ Connect
  \/ CoordReceive
  \/ \E ok \in BOOLEAN : StoreDone(ok)
  \/ RouterReceive
  \/ RouteResponse
  \/ RouteVlmResponse
  \/ SumReceive
  \/ \E j \in 1..Len(sumJobs), ok \in BOOLEAN : SumInfer(j, ok)
  \/ VlmReceive
  \/ \E j \in 1..Len(vlmJobs), ok \in BOOLEAN : VlmInfer(j, ok)

SpecCalls == Init /\ [][NextCalls]_vars

\* the gaps that end just before and just after the workflow timeout
ClassifierTicks == {WORKFLOW_TIMEOUT - 1, WORKFLOW_TIMEOUT}

\* the classifier driven by every kind of event it tells apart
NextClassifier ==
  \/ \E e \in ClassifierKinds : Ingest(e)
  \/ \E d \in ClassifierTicks : Tick(d)

SpecClassifier == Init /\ [][NextClassifier]_vars

\* the content script of one page and the listener that takes its frames
NextSurface ==
  \/ Load
  \/ Hide
  \/ Show
  \/ Mutate
  \/ IntervalFire
  \/ \E outcome \in Outcomes : ScreenshotMessage(outcome)
  \/ \E got \in BOOLEAN : CaptureReturns(got)
  \/ \E ok \in BOOLEAN : BatchReturns(ok)

SpecSurface == Init /\ [][NextSurface]_vars

\* the content script's handler on the events of one form field
NextContext ==
  \/ \E f \in Fields : ShowField(f)
  \/ \E c \in Chars : TypeKey(c)
  \/ \E type \in FieldEventTypes : FieldEvent(type)

SpecContext == Init /\ [][NextContext]_vars

\* ------------------------------------------------------------------ claims
WorkflowRecords(q) == SelectSeq(q, LAMBDA e : e.type = "workflow")

RawEvents(q) == SelectSeq(q, LAMBDA e : e.type # "workflow")

Contains(q, e) == \E k \in 1..Len(q) : q[k] = e

IsPrefix(a, b) == Len(a) <= Len(b) /\ \A k \in 1..Len(a) : a[k] = b[k]

Outstanding == {i \in 1..Len(flushes) : InProgress(flushes[i])}

\* no screenshot event has been ingested (each one triggers a flush)
NoShot == \A i \in 1..Len(flushes) : flushes[i].trigger # "screenshot"

\* this step is one run of handleEvent
IngestStep == nEvents' = nEvents + 1

\* the entries this step appended to the queue
Appended == SubSeq(queue', Len(queue) + 1, Len(queue'))

\* C1: flush is single-flight: at most one flush is outstanding (awaiting its
\* summary or its store write) at any time.
C1_SingleFlight == Cardinality(Outstanding) <= 1

C4_NoLoss ==
  \A i \in 1..Len(flushes) :
    flushes[i].pc = "done"
      => \A k \in 1..Len(flushes[i].cleared) :
           Contains(flushes[i].written, Sanitize(flushes[i].cleared)[k])

\* C5: ingesting a screenshot event triggers exactly one flush, whatever the
\* queue and the classifier state; from an empty queue and an Idle classifier
\* the batch of that flush has length 1.
C5_ShotFlushesOnce ==
  [][(IngestStep /\ \E k \in 1..Len(Appended) : Appended[k].type = "screenshot")
       => /\ Len(flushes') = Len(flushes) + 1
          /\ flushes'[Len(flushes')].trigger = "screenshot"
          /\ flushes'[Len(flushes')].batch = queue'
          /\ (queue = <<>> /\ currentWorkflow.type = Null)
               => Len(flushes'[Len(flushes')].batch) = 1]_vars

\* C5 witness: a screenshot ingested into a non-empty queue while a workflow
\* was Active has triggered a flush.
C5_Witness ==
  \E i \in 1..Len(flushes) :
    /\ flushes[i].trigger = "screenshot"
    /\ Len(flushes[i].batch) > 2
    /\ flushes[i].batch[Len(flushes[i].batch)].type = "workflow"

C7_RetainedOnFailure ==
  \A i \in 1..Len(flushes) :
    flushes[i].pc = "storeFailed"
      => /\ IsPrefix(flushes[i].written, Sanitize(flushes[i].atFail))
         /\ \A g \in 1..Len(flushes) :
              (i \in flushes[g].after
               /\ \A h \in 1..(g - 1) : i \notin flushes[h].after)
                => \A k \in 1..Len(flushes[i].atFail) :
                     Contains(flushes[g].batch, flushes[i].atFail[k])

\* C8: a flush whose request was answered by an error reply writes nothing
\* to the store and does not clear the queue, and no store write carries an
\* undefined summary.
C8_NothingPersistedOnError ==
  /\ \A i \in 1..Len(flushes) :
       /\ flushes[i].errored
            => /\ flushes[i].pc \notin {"awaitStore", "done", "storeFailed"}
               /\ flushes[i].written = <<>>
               /\ flushes[i].cleared = <<>>
       /\ flushes[i].pc \in {"awaitStore", "done", "storeFailed"}
            => flushes[i].summary # 0
  /\ store.writes > 0 => store.log # 0

\* C8 witness: the Coordinator has received the error reply of a flush.
C8_Witness == \E i \in 1..Len(flushes) : flushes[i].errored

\* C9: once the error reply for its request has reached the Coordinator, the
\* flush no longer waits and its reply listener is removed.
C9_ErrorEndsWait ==
  \A i \in 1..Len(flushes) :
    flushes[i].errored => flushes[i].pc # "awaitSummary"

\* C10: the Router forwards the first reply for a pending id unmodified to
\* the recorded channel and removes the entry; a reply whose id is not
\* pending is forwarded to nobody; no id is forwarded twice.
C10_AtMostOnce ==
  /\ [][(fromSum # <<>> /\ fromSum' = Tail(fromSum))
          => LET data == Head(fromSum)
             IN IF PendingHas(data.id)
                THEN /\ r2c' = Append(r2c, [port |-> PendingGet(data.id).port]
                                             @@ data)
                     /\ \A k \in 1..Len(pending') : pending'[k].id # data.id
                ELSE r2c' = r2c]_vars
  /\ [](\A a, b \in 1..Len(delivered) :
          delivered[a].id = delivered[b].id => a = b)

\* the worker has received request id and has not answered it yet
Unanswered(id) ==
  \/ \E k \in 1..Len(toSum) : toSum[k].id = id
  \/ \E k \in 1..Len(sumJobs) : sumJobs[k].id = id

\* C11: once every reply of the worker has been routed, the pending table
\* holds exactly the ids dispatched to the worker and not yet answered by it:
\* no entry remains for a request the worker has answered.
C11_PendingExact ==
  /\ \A id \in 1..Len(flushes) : Unanswered(id) => PendingHas(id)
  /\ fromSum = <<>>
       => \A k \in 1..Len(pending) : Unanswered(pending[k].id)

\* the request of flush f, or a reply carrying its id, is still on its way
InFlight(f) ==
  \/ \E k \in 1..Len(c2r) : c2r[k].id = f.id
  \/ Unanswered(f.id)
  \/ \E k \in 1..Len(fromSum) : fromSum[k].id = f.id
  \/ \E k \in 1..Len(r2c) : r2c[k].id = f.id

\* C12: while the Coordinator holds no channel a reconnect is under way, and
\* a request dispatched after a reconnect, on the channel still connected, is
\* not left waiting with neither its request nor a reply for it on its way.
C12_RepliedAfterReconnect ==
  /\ port = 0 => connecting
  /\ \A i \in 1..Len(flushes) :
       (/\ flushes[i].port >= 2
        /\ flushes[i].port = port
        /\ flushes[i].pc = "awaitSummary"
        /\ ~flushes[i].errored)
         => InFlight(flushes[i])

\* the channel flush f was dispatched on has disconnected while f waited
Orphaned(f) == f.pc = "awaitSummary" /\ f.port # 0 /\ f.port # port

\* the number of copies of request id between the Coordinator and the worker
Copies(id) ==
  Cardinality({k \in 1..Len(c2r) : c2r[k].id = id})
  + Cardinality({k \in 1..Len(toSum) : toSum[k].id = id})
  + Cardinality({k \in 1..Len(sumJobs) : sumJobs[k].id = id})

\* C13: a request in flight when its channel disconnected is never
\* redelivered (at most one copy of a request exists), no reply is delivered
\* on a channel other than the one the request came on, and its caller keeps
\* waiting for ever; the Coordinator still ingests events meanwhile.
C13_InFlightLost ==
  /\ [](\A id \in 1..Len(flushes) : Copies(id) <= 1)
  /\ [](\A k \in 1..Len(delivered) :
          delivered[k].port = flushes[delivered[k].id].port)
  /\ [][\A i \in 1..Len(flushes) :
          Orphaned(flushes[i])
            => /\ flushes'[i] = flushes[i]
               /\ \A k \in 1..Len(r2c') :
                    r2c'[k].id = flushes[i].id
                      => r2c'[k].port # port']_vars

\* C13 witness: the worker's late reply for an orphaned request has been
\* routed, the request still waits, and a flush triggered later is done.
C13_Witness ==
  \E i, j \in 1..Len(flushes) :
    /\ i < j
    /\ Orphaned(flushes[i])
    /\ ~Unanswered(flushes[i].id) /\ fromSum = <<>>
    /\ PendingHas(flushes[i].id)
    /\ flushes[j].pc = "done"

\* one step of a cache of capacity K from c to d: a key already present keeps
\* its place, a new key goes last, and only the first-inserted key leaves,
\* only when the cache was full
FifoStep(c, d, K) ==
  c # d =>
    LET e == d[Len(d)]
    IN IF \E k \in 1..Len(c) : c[k].key = e.key
       THEN Len(d) = Len(c) /\ \A k \in 1..Len(c) : d[k].key = c[k].key
       ELSE IF Len(c) < K THEN d = Append(c, e)
            ELSE /\ d = Append(Tail(c), e)
                 /\ \A k \in 1..Len(d) : d[k].key # c[1].key

\* the cache key of a batch that is the single raw event of timestamp 1
FirstKey == generateCacheKey(Enhance(<<[type |-> "click", timestamp |-> 1]>>))

\* C14: each worker cache evicts in FIFO order: the insertion that exceeds the
\* capacity removes exactly the first-inserted key, after which that key
\* misses; a cache hit changes neither the contents nor the order.
C14_FifoEviction ==
  /\ [](Len(sumCache) <= MAX_CACHE_SIZE /\ Len(responseCache) <= VLM_CACHE_SIZE)
  /\ [][/\ FifoStep(sumCache, sumCache', MAX_CACHE_SIZE)
        /\ FifoStep(responseCache, responseCache', VLM_CACHE_SIZE)
        /\ (toSum' # toSum /\ fromSum' # fromSum) => sumCache' = sumCache
        /\ (toVlm' # toVlm /\ fromVlm' # fromVlm)
             => responseCache' = responseCache]_vars

\* C14 witness: the summarizer cache is full, its first-inserted key has
\* been evicted, and a later request for that key has missed.
C14_Witness ==
  /\ Len(sumCache) = MAX_CACHE_SIZE
  /\ ~CacheHas(FirstKey)
  /\ reqs > MAX_CACHE_SIZE + 2
  /\ \E k \in 1..Len(sumJobs) : sumJobs[k].key = FirstKey

\* C15: a request whose fingerprint matches a cached entry is answered
\* without a new inference call: a describe whose image has the prefix of a
\* cached answer, and a summarise whose batch has the key of a cached answer.
C15_AnsweredFromCache ==
  [][/\ (/\ toVlm # <<>> /\ toVlm' = Tail(toVlm)
         /\ \E k \in 1..Len(responseCache) :
              responseCache[k].key[2] = ImagePrefix(Head(toVlm).imgBase64))
          => vlmJobs' = vlmJobs /\ Len(fromVlm') = Len(fromVlm) + 1
     /\ (/\ toSum # <<>> /\ toSum' = Tail(toSum)
         /\ CacheHas(generateCacheKey(Head(toSum).events)))
          => sumJobs' = sumJobs /\ Len(fromSum') = Len(fromSum) + 1]_vars

\* the event this step ingested
IngestedEvent == RawEvents(Appended)[1]

\* evt meets the start condition of some pattern
IsStartTrigger(evt) ==
  \E ty \in DOMAIN WORKFLOW_PATTERNS :
    /\ evt.type \in WORKFLOW_PATTERNS[ty].startTriggers
    /\ Get(evt, "elementType") \in WORKFLOW_PATTERNS[ty].targetTypes

\* a workflow is Active and this step ingests an event that neither ends it
\* nor meets a start condition
NeutralIngest ==
  /\ IngestStep
  /\ currentWorkflow.type # Null
  /\ IngestedEvent.type
       \notin WORKFLOW_PATTERNS[currentWorkflow.type].endTriggers
  /\ ~IsStartTrigger(IngestedEvent)

\* the step an event becomes in the Active workflow
StepOf(evt) ==
  [action |-> IF "description" \in DOMAIN evt THEN evt.description ELSE evt.type,
   timestamp |-> evt.timestamp]

LateStart ==
  /\ IngestStep
  /\ currentWorkflow.type # Null
  /\ IsStartTrigger(IngestedEvent)
  /\ IngestedEvent.timestamp - currentWorkflow.lastEventTime > WORKFLOW_TIMEOUT

ImagesNulled(events) ==
  \A k \in 1..Len(events) :
    "imgBase64" \in DOMAIN events[k] /\ events[k].imgBase64 = Null

\* C18: every entry of every events array written to the store, or handed to
\* a store write, has its image field set to null, whether it is a raw event,
\* a screenshot event or a Workflow record.
C18_NoImagePersisted ==
  /\ ImagesNulled(store.events)
  /\ \A i \in 1..Len(flushes) : ImagesNulled(flushes[i].written)

\* C18 witness: the stored events array holds a screenshot event and a
\* Workflow record.
C18_Witness ==
  /\ store.writes > 0
  /\ \E k \in 1..Len(store.events) : store.events[k].type = "screenshot"
  /\ \E k \in 1..Len(store.events) : store.events[k].type = "workflow"

\* the entries ingested up to the first flush
FirstBatch == IF flushes = <<>> THEN queue ELSE flushes[1].batch

\* the entries are plain clicks: clicks on an element no pattern targets
PlainOnly(q) ==
  \A k \in 1..Len(q) :
    q[k].type = "click" /\ ~IsStartTrigger(q[k])

\* C19: from an empty queue, MAX_BATCH_SIZE plain clicks trigger exactly one
\* flush, on the last of them; the array that flush writes, and the array
\* stored when the write succeeds, are those clicks in ingestion order.
C19_TenPlainClicks ==
  (nEvents <= MAX_BATCH_SIZE /\ PlainOnly(FirstBatch))
    => /\ nEvents < MAX_BATCH_SIZE => flushes = <<>>
       /\ nEvents = MAX_BATCH_SIZE
            => /\ Len(flushes) = 1
               /\ Len(flushes[1].batch) = MAX_BATCH_SIZE
               /\ \A k \in 1..MAX_BATCH_SIZE :
                    flushes[1].batch[k].timestamp = k
               /\ flushes[1].pc \in {"awaitStore", "done", "storeFailed"}
                    => flushes[1].written = Sanitize(flushes[1].batch)
               /\ flushes[1].pc = "done"
                    => /\ store.events = Sanitize(flushes[1].batch)
                       /\ Len(store.events) = MAX_BATCH_SIZE
                       /\ store.writes = 1

\* C19 witness: ten plain clicks were ingested and the flush has stored them.
C19_Witness ==
  /\ nEvents = MAX_BATCH_SIZE
  /\ PlainOnly(FirstBatch)
  /\ flushes # <<>>
  /\ flushes[1].pc = "done"

\* C20: any two consecutive capture requests of a surface are at least
\* MIN_SCREENSHOT_INTERVAL apart.
C20_HardFloor ==
  \A k \in 2..Len(surface.captures) :
    surface.captures[k] - surface.captures[k - 1] >= MIN_SCREENSHOT_INTERVAL

\* C21: a capture is requested only from a visible surface whose content
\* fingerprint differs from the one at the capture before: no capture is
\* requested while the fingerprint is unchanged since the last capture.
C21_GatesCombined ==
  \A k \in 1..Len(surface.captured) :
    /\ ~surface.captured[k].hidden
    /\ ~surface.captured[k].unchanged

\* this step answers a 'screenshot' message without a frame: the sender is
\* not the active tab, or captureVisibleTab failed
Refused ==
  \E k \in 1..Len(surface.capturing) :
    /\ surface.capturing[k].resp = "none"
    /\ k <= Len(surface'.capturing)
    /\ surface'.capturing[k].resp \in {"skipped", "error"}

\* this step returns such an answer to the callback that asked
RefusalReturns ==
  /\ surface.capturing # <<>>
  /\ Head(surface.capturing).resp \in {"skipped", "error"}
  /\ surface'.capturing = Tail(surface.capturing)

\* C22: a screenshot request from a surface that is not the active one, or
\* one whose host capture fails, wraps no frame as an event: the queue, the
\* workflow state and the store are unchanged and no flush is triggered; and
\* the requesting side adds nothing to its screenshot batch.
C22_NoFrame ==
  [][/\ Refused => UNCHANGED <<queue, currentWorkflow, store, storeQ,
                                flushes, c2r, nEvents>>
     /\ RefusalReturns => surface'.screenshotBatch = surface.screenshotBatch
    ]_vars

\* a refused request has returned to its callback, and another one is
\* refused and waits to return: nothing was queued, nothing is in the batch
C22_Witness ==
  /\ surface.lastScreenshotTime > 0
  /\ Len(surface.capturing) = 1
  /\ surface.capturing[1].resp \in {"skipped", "error"}
  /\ nEvents = 0
  /\ queue = <<>>
  /\ surface.screenshotBatch = 0

\* this step resolves the summarise request of flush i
SummaryResolved(i) ==
  /\ flushes[i].pc = "awaitSummary"
  /\ flushes'[i].pc = "awaitStore"

\* this step resolves a describe request of run i
DescriptionResolved(i) == batchRuns'[i].resolved > batchRuns[i].resolved

\* C23: with a describe and a summarise request outstanding and their
\* replies arriving in any order, a caller is resolved only by the reply
\* that carries its own id and is of its own kind, and at most once: the
\* reply that resolves it ends its wait for that id.
C23_OwnReplyOnly ==
  /\ [](\A i \in 1..Len(batchRuns) : batchRuns[i].resolved <= batchRuns[i].made)
  /\ [][/\ \A i \in 1..Len(flushes) :
             SummaryResolved(i) =>
               /\ r2c # <<>>
               /\ Head(r2c).id = flushes[i].id
               /\ "summary" \in DOMAIN Head(r2c)
               /\ flushes'[i].summary = Head(r2c).summary
        /\ \A i \in 1..Len(batchRuns) :
             DescriptionResolved(i) =>
               /\ r2c # <<>>
               /\ batchRuns[i].pc = "awaitDescription"
               /\ Head(r2c).id = batchRuns[i].id
               /\ "description" \in DOMAIN Head(r2c)
               /\ batchRuns'[i].resolved = batchRuns[i].resolved + 1
               /\ \/ batchRuns'[i].pc # "awaitDescription"
                  \/ batchRuns'[i].id # batchRuns[i].id
       ]_vars

\* a describe request was posted while a flush awaited its summary, and
\* both callers have been resolved
C23_Witness ==
  \E i \in 1..Len(batchRuns) :
    /\ batchRuns[i].resolved >= 1
    /\ \E j \in batchRuns[i].during :
         /\ flushes[j].pc \in {"awaitStore", "done"}
         /\ flushes[j].summary # 0

\* C24: after every handled request each worker cache holds at most its
\* maximum, MAX_CACHE_SIZE entries in the summarizer and VLM_CACHE_SIZE in
\* the describer; one request adds at most one entry, so that inside its
\* handling the bound is exceeded by at most one before the eviction.
C24_CacheBounded ==
  /\ [](/\ Len(sumCache) <= MAX_CACHE_SIZE
        /\ Len(responseCache) <= VLM_CACHE_SIZE)
  /\ [][/\ Len(sumCache') <= Len(sumCache) + 1
        /\ Len(responseCache') <= Len(responseCache) + 1]_vars

\* the describer cache is full and has evicted the entry of the first
\* request
C24_Witness ==
  /\ Len(responseCache) = VLM_CACHE_SIZE
  /\ responseCache[1].key[1] # 1

\* this step is one run of handleEvent that triggers no flush: what it does
\* to the workflow state is what the classifier did
ClassifierStep == IngestStep /\ Len(flushes') = Len(flushes)

\* the pattern whose start condition evt meets
StartedPattern(evt) ==
  CHOOSE ty \in DOMAIN WORKFLOW_PATTERNS :
    /\ evt.type \in WORKFLOW_PATTERNS[ty].startTriggers
    /\ Get(evt, "elementType") \in WORKFLOW_PATTERNS[ty].targetTypes

\* the workflow evt starts: evt is its only step
StartedBy(evt) ==
  [type |-> StartedPattern(evt), target |-> Get(evt, "identifier"),
   steps |-> <<StepOf(evt)>>,
   startTime |-> evt.timestamp, lastEventTime |-> evt.timestamp]

\* C25: in Idle, an event that meets the start condition of a pattern (kind
\* in startTriggers, target kind in targetTypes) makes the classifier Active
\* under that pattern, the event its only step and startTime = lastEventTime
\* = the ingestion time; an event that meets none, such as a start-trigger
\* kind on a target kind of no pattern, starts no workflow.
C25_StartFromIdle ==
  [][(ClassifierStep /\ currentWorkflow.type = Null) =>
       /\ IngestedEvent.timestamp = now'
       /\ IF IsStartTrigger(IngestedEvent)
          THEN currentWorkflow' = StartedBy(IngestedEvent)
          ELSE currentWorkflow' = IdleWorkflow
       /\ Appended = <<IngestedEvent>>]_vars

\* a click on a button has started a Navigation workflow from Idle, after a
\* click on a div that started none
C25_Witness ==
  /\ Len(queue) = 2
  /\ queue[1].type = "click" /\ queue[1].elementType = "div"
  /\ currentWorkflow.type = "NAVIGATION"
  /\ queue[2].type = "click" /\ queue[2].elementType = "button"
  /\ currentWorkflow = StartedBy(queue[2])

\* a workflow is Active and this step ingests an event whose kind is an end
\* trigger of its pattern
EndIngest ==
  /\ ClassifierStep
  /\ currentWorkflow.type # Null
  /\ IngestedEvent.type \in WORKFLOW_PATTERNS[currentWorkflow.type].endTriggers

\* the event is the last step of the workflow that was Active, one Workflow
\* record with all its steps in order is appended, the classifier is Idle
FinishedByEvent ==
  /\ currentWorkflow' = IdleWorkflow
  /\ Len(WorkflowRecords(Appended)) = 1
  /\ Appended[1].type = "workflow"
  /\ Appended[1].workflowType = currentWorkflow.type
  /\ Appended[1].target = currentWorkflow.target
  /\ Appended[1].startTime = currentWorkflow.startTime
  /\ Appended[1].steps = Append(currentWorkflow.steps, StepOf(IngestedEvent))
  /\ Appended[2] = IngestedEvent

\* C26 as stated: in Active, an event whose kind is an end trigger of the
\* Active pattern is appended as the last step of the workflow, exactly one
\* Workflow record with all steps in order is appended to the queue, and
\* the classifier is Idle with type, target, startTime and lastEventTime
\* cleared and no steps.
C26_Original == [][EndIngest => FinishedByEvent]_vars

\* C26 amended: the same, for an end-trigger event that does not force the
\* workflow to finish by timeout, that is one that meets no start condition
\* or arrives within WORKFLOW_TIMEOUT of the last event.
C26_Amended == [][(EndIngest /\ ~LateStart) => FinishedByEvent]_vars

\* a Field Update workflow of two steps was finished by a change event, its
\* last step, and the classifier is Idle
C26_Witness ==
  /\ Len(queue) = 3
  /\ queue[2].type = "workflow"
  /\ queue[2].workflowType = "FIELD_UPDATE"
  /\ Len(queue[2].steps) = 2
  /\ queue[3].type = "change"
  /\ queue[2].steps[2] = StepOf(queue[3])
  /\ currentWorkflow = IdleWorkflow

\* a workflow is Active and this step ingests an event
ActiveIngest == ClassifierStep /\ currentWorkflow.type # Null

\* ... an event that meets the start condition of another pattern, within
\* WORKFLOW_TIMEOUT of the last event of the Active workflow
EarlyOtherStart ==
  /\ ActiveIngest
  /\ IsStartTrigger(IngestedEvent)
  /\ StartedPattern(IngestedEvent) # currentWorkflow.type
  /\ IngestedEvent.timestamp - currentWorkflow.lastEventTime <= WORKFLOW_TIMEOUT

\* the event is the last step of a workflow whose last event time is the
\* ingestion time: of the Active one or, if the event finished it, of the
\* Workflow record it left
StepAppended ==
  IF currentWorkflow'.type # Null
  THEN /\ currentWorkflow'.steps[Len(currentWorkflow'.steps)]
            = StepOf(IngestedEvent)
       /\ currentWorkflow'.lastEventTime = now'
  ELSE LET r == Appended[Len(Appended) - 1]
       IN /\ r.type = "workflow"
          /\ r.steps[Len(r.steps)] = StepOf(IngestedEvent)
          /\ r.endTime = now'

\* the Active workflow goes on with the event as its next step
Continued ==
  /\ currentWorkflow' = [currentWorkflow EXCEPT
                           !.steps = Append(@, StepOf(IngestedEvent)),
                           !.lastEventTime = now']
  /\ Appended = <<IngestedEvent>>

\* C27 as stated: in Active, every ingested event is appended as a step and
\* lastEventTime is set to its ingestion time; an event that meets another
\* pattern's start condition within 5000 ms neither finishes nor replaces
\* the Active workflow.
C27_Original ==
  [][/\ ActiveIngest => StepAppended
     /\ EarlyOtherStart => Continued]_vars

\* C27 amended: the same, but an event that meets another pattern's start
\* condition within 5000 ms leaves the Active workflow going only if its
\* kind is no end trigger of the Active pattern; if it is one, the event
\* finishes the workflow as its last step. In neither case is the workflow
\* replaced.
C27_Amended ==
  [][/\ ActiveIngest => StepAppended
     /\ EarlyOtherStart =>
          IF IngestedEvent.type
               \in WORKFLOW_PATTERNS[currentWorkflow.type].endTriggers
          THEN FinishedByEvent
          ELSE Continued]_vars

\* a Navigation workflow is Active and a click on an input, the start
\* condition of Field Update, has become its second step
C27_Witness ==
  /\ currentWorkflow.type = "NAVIGATION"
  /\ Len(currentWorkflow.steps) = 2
  /\ Len(queue) = 2
  /\ queue[2].type = "click" /\ queue[2].elementType = "input"
  /\ currentWorkflow.steps[2] = StepOf(queue[2])
  /\ currentWorkflow.startTime = queue[1].timestamp

\* this step force-finishes the Active workflow: its Workflow record is
\* appended with the steps it had, the ingested event not among them
ForceFinished ==
  /\ ActiveIngest
  /\ Appended[1].type = "workflow"
  /\ Appended[1].steps = currentWorkflow.steps

\* C28: a timeout force-finish is caused only by an event that meets the
\* start condition of a pattern other than the Active one; a start trigger
\* of the Active pattern arriving more than 5000 ms after lastEventTime does
\* not force-finish the workflow but becomes its next step.
C28_OnlyOtherPattern ==
  [][/\ ForceFinished =>
          /\ LateStart
          /\ StartedPattern(IngestedEvent) # currentWorkflow.type
     /\ (LateStart /\ ClassifierStep
           /\ StartedPattern(IngestedEvent) = currentWorkflow.type)
          => Continued]_vars

\* in Idle, this step ingests an event that meets no start condition
IdleNoStart ==
  /\ ClassifierStep
  /\ currentWorkflow.type = Null
  /\ ~IsStartTrigger(IngestedEvent)

\* the events handleEvent can be called with in this step
Received == {[timestamp |-> now'] @@ k : k \in ClassifierKinds}

\* the entry without the label handleEvent gives it
Unlabelled(e) == [f \in DOMAIN e \ {"label"} |-> e[f]]

C30_OneTimerWhileVisible ==
  /\ [](/\ surface.timers <= 1
        /\ surface.screenshotInterval <=> surface.timers = 1
        /\ \A k \in 1..Len(surface.captured) : ~surface.captured[k].hidden)
  /\ [][/\ (~surface.hidden /\ surface'.hidden) => surface'.timers = 0
        /\ (surface.hidden /\ ~surface'.hidden) => surface'.timers = 1
        /\ Len(surface'.captures) > Len(surface.captures) => ~surface.hidden
       ]_vars

\* the surface became hidden and visible again after a frame was taken at
\* SCREENSHOT_INTERVAL: the one timer runs from the time it became visible
C30_Witness ==
  /\ surface.timers = 1
  /\ ~surface.hidden
  /\ now = SCREENSHOT_INTERVAL + 1
  /\ surface.nextFire = now + SCREENSHOT_INTERVAL
  /\ Len(surface.captures) = 1

\* this step is a mutation of the page content
MutationSignal == surface'.content # surface.content

\* C31: a mutation signal leaves one debounce timer pending, due DEBOUNCE_MS
\* after the signal (a further signal restarts it); lastDOMHash changes only
\* in a step that requests a capture.
C31_Debounced ==
  [][/\ MutationSignal => surface'.screenshotTimeout = now' + DEBOUNCE_MS
     /\ surface'.lastDOMHash # surface.lastDOMHash
          => Len(surface'.captures) > Len(surface.captures)]_vars

\* C32: every reply a worker posts carries the id of the request it answers,
\* also a reply served from the cache, so that the Router finds a pending
\* entry for every reply it takes from a worker.
C32_ReplyCarriesRequestId ==
  [][/\ (/\ toSum # <<>> /\ toSum' = Tail(toSum)
         /\ Len(fromSum') = Len(fromSum) + 1)
          => fromSum'[Len(fromSum')].id = Head(toSum).id
     /\ (/\ toVlm # <<>> /\ toVlm' = Tail(toVlm)
         /\ Len(fromVlm') = Len(fromVlm) + 1)
          => fromVlm'[Len(fromVlm')].id = Head(toVlm).id
     /\ (fromSum # <<>> /\ fromSum' = Tail(fromSum))
          => PendingHas(Head(fromSum).id)
     /\ (fromVlm # <<>> /\ fromVlm' = Tail(fromVlm))
          => PendingHas(Head(fromVlm).id)]_vars

\* C33: with the channel connected since the dispatch and no inference or
\* store failure, a triggered flush is never left waiting for its summary
\* with neither its request nor a reply for it on its way: so every such
\* flush, a retry of a batch summarised before included, completes.
C33_FlushCompletes ==
  \A i \in 1..Len(flushes) :
    (/\ port # 0
     /\ flushes[i].port = port
     /\ flushes[i].pc = "awaitSummary"
     /\ \A k \in 1..Len(flushes) :
          ~flushes[k].errored /\ flushes[k].pc # "storeFailed")
      => InFlight(flushes[i])

\* this step is one run of handleEvent that reaches the flush branch
FlushStep == IngestStep /\ Len(flushes') = Len(flushes) + 1

\* the workflow state the flush branch of this step found, after updateWorkflow
AtFlush ==
  updateWorkflow([cw |-> currentWorkflow, q |-> queue], IngestedEvent, now').cw

\* the Workflow record finishWorkflow makes of workflow w
RecordOf(w) ==
  [type |-> "workflow", workflowType |-> w.type, target |-> w.target,
   steps |-> w.steps, startTime |-> w.startTime, endTime |-> w.lastEventTime,
   duration |-> w.lastEventTime - w.startTime]

\* the flush of this step read the queue for its store write
WriteStep(i) ==
  flushes[i].pc = "awaitSummary" /\ flushes'[i].pc = "awaitStore"

\* C34: a flush triggered while a workflow is Active finishes it first: the
\* Workflow record is the entry after the triggering event, it is in the batch
\* sent to the Summarizer, the classifier is Idle once the request is
\* dispatched, and the record is in the events array the flush persists.
C34_FlushFinishesWorkflow ==
  [][/\ (FlushStep /\ AtFlush.type # Null)
          => LET n == Len(queue')
                 f == flushes'[Len(flushes')]
             IN /\ queue'[n] = RecordOf(AtFlush)
                /\ queue'[n - 1] = IngestedEvent
                /\ f.batch = queue'
                /\ f.pc = "awaitSummary"
                     => c2r'[Len(c2r')].events = Enhance(queue')
                /\ currentWorkflow' = IdleWorkflow
     /\ \A i \in 1..Len(flushes) :
          (/\ WriteStep(i)
           /\ flushes[i].batch[Len(flushes[i].batch)].type = "workflow")
            => \E k \in 1..Len(flushes'[i].written) :
                 flushes'[i].written[k]
                   = Sanitize(<<flushes[i].batch[Len(flushes[i].batch)]>>)[1]]_vars

C36_LogOfEvents ==
  store.writes > 0
    => /\ store.log \in 1..Len(flushes)
       /\ store.events = Sanitize(flushes[store.log].batch)

\* C37: every screenshot added to the screenshot batch is sent in exactly one
\* process_batch message: whenever the batch is emptied, each screenshot that
\* leaves it has been carried by one message and by one only (none is
\* discarded unsent, none was sent twice by concurrent runs of processBatch).
C37_SentExactlyOnce ==
  [][surface'.screenshotBatch < surface.screenshotBatch
       => \A i \in InBatch(surface) : surface.sent[i] = 1]_vars

\* the texts of length n
Values(n) == [1..n -> Chars]

\* C38: the message sent for an event on a password field does not depend on
\* the characters of the field's value: any other value of the same length
\* would have produced the same message.
C38_MaskOnly ==
  (/\ surface.message # <<>>
   /\ surface.target[1].type = "password")
    => \A v \in Values(Len(surface.target[1].value)) :
         EventMessage([surface.target[1] EXCEPT !.value = v],
                      surface.message[1].type,
                      surface.message[1].timestamp) = surface.message[1]

\* the workflow state is Active and well-formed
ActiveWellFormed(w) ==
  /\ w.type \in DOMAIN WORKFLOW_PATTERNS
  /\ Len(w.steps) >= 1
  /\ w.startTime # NoTime
  /\ w.startTime <= w.lastEventTime

\* C39: after every run of handleEvent the workflow state is well-formed: Idle
\* with type, target, startTime and lastEventTime null and no steps, or
\* Active with at least one step and startTime <= lastEventTime; and every
\* Workflow record in the queue has at least one step and
\* duration = endTime - startTime >= 0.
C39_WellFormed ==
  /\ currentWorkflow = IdleWorkflow \/ ActiveWellFormed(currentWorkflow)
  /\ \A k \in 1..Len(queue) :
       queue[k].type = "workflow"
         => /\ Len(queue[k].steps) >= 1
            /\ queue[k].duration = queue[k].endTime - queue[k].startTime
            /\ queue[k].duration >= 0

\* a workflow of two steps has been finished by its end trigger, its last
\* event later than its first, and the classifier is Idle again
C39_Witness ==
  /\ currentWorkflow = IdleWorkflow
  /\ nEvents > backlog
  /\ \E k \in 1..Len(queue) :
       /\ queue[k].type = "workflow"
       /\ Len(queue[k].steps) >= 2
       /\ queue[k].duration > 0

====
